---------------------------- MODULE Spec2Model ----------------------------
(***************************************************************************)
(* Stepper motor positioning system (stepper_positioning.ino).             *)
(*                                                                         *)
(* The sketch is single threaded: loop() reads one line from Serial,       *)
(* normalises it and hands it to handle_command, which runs the command    *)
(* to completion.  The model keeps the sketch's globals and pin levels as  *)
(* state; a command line is a sequence of one-character strings.  The two  *)
(* stepping loops (move_to's for loop, home_sequence's while loop) take    *)
(* one action per iteration, so every step boundary is a state.            *)
(*                                                                         *)
(* Target: Arduino Uno / Nano (AVR): int is 16 bits, long is 32 bits.      *)
(* Signed overflow of long wraps (two's complement), as avr-gcc's code     *)
(* does; the conversion long -> int keeps the low 16 bits.                 *)
(***************************************************************************)
EXTENDS Integers, Sequences, FiniteSets, TLC

VARIABLES
  pc,                \* "idle": loop() waits for a line; "move": in move_to's
                     \* for loop; "home": in home_sequence's while loop
  current_position,  \* long current_position
  target_position,   \* long target_position
  step_delay_us,     \* int step_delay_us
  STEP_PIN,          \* level of the STEP output
  DIR_PIN,           \* level of the DIR output
  EN_PIN,            \* level of the EN output (active LOW)
  LIMIT_PIN,         \* level of the LIMIT input (active LOW), set by the
                     \* environment
  steps_to_move,     \* move_to's local
  abs_steps,         \* move_to's local
  i,                 \* move_to's loop counter
  cmd,               \* history: the command being (or last) executed
  start_pos,         \* history: current_position when cmd was dispatched
  pre_delay,         \* history: step_delay_us when cmd was dispatched
  pre_target,        \* history: target_position when cmd was dispatched
  pulses,            \* history: step pulses issued since cmd was dispatched
  net,               \* history: net physical steps since cmd was dispatched
                     \* (+1 per pulse with DIR HIGH, -1 per pulse with DIR LOW)
  out,               \* history: the last line cmd printed on Serial
  report,            \* history: the values print_status printed last
  prev,              \* history: the MOVE that directly preceded a MOVE
  inactive_reads,    \* history: home_sequence's reads of LIMIT, since cmd
                     \* was dispatched, made while the switch was inactive
  scen               \* history: how many commands of the README's example
                     \* session (HOME, MOVE 400, STATUS) the commands read
                     \* since start-up have followed; 0 once they left it

vars == <<pc, current_position, target_position, step_delay_us, STEP_PIN,
          DIR_PIN, EN_PIN, LIMIT_PIN, steps_to_move, abs_steps, i, cmd,
          start_pos, pre_delay, pre_target, pulses, net, out, report, prev,
          inactive_reads, scen>>

---------------------------------------------------------------------------
\* Program constants

STEPS_PER_REV == 200

INIT_DELAY_US == 1500

MIN_DELAY_US == 500

MAX_DELAY_US == 10000

\* home_sequence gives up once current_position < -HOME_LIMIT
HOME_LIMIT == 10000

\* long on AVR: 32 bits
LONG_MAX == 2147483647

LONG_MIN == -LONG_MAX - 1

\* int on AVR: 16 bits
INT_MAX == 32767

\* The README's example session: MOVE 400
EXAMPLE_MOVE == 400

---------------------------------------------------------------------------
\* Bounds of the model

\* MOVE and GOTO are explored for targets in -MaxPos .. MaxPos
MaxPos == 2

\* HOME is explored from positions down to MaxRetry steps below -HOME_LIMIT
MaxRetry == 1

---------------------------------------------------------------------------
\* 32-bit long and 16-bit int arithmetic (results always within the width;
\* written so that no intermediate value leaves the 32-bit range)

AddL(a, b) ==
  IF a > 0 /\ b > 0 /\ a > LONG_MAX - b THEN (a - LONG_MAX) + (b - LONG_MAX) - 2
  ELSE IF a < 0 /\ b < 0 /\ a < LONG_MIN - b THEN (a + LONG_MAX) + (b + LONG_MAX) + 2
  ELSE a + b

NegL(a) == IF a = LONG_MIN THEN LONG_MIN ELSE 0 - a

SubL(a, b) == IF b = LONG_MIN THEN AddL(AddL(a, LONG_MAX), 1) ELSE AddL(a, 0 - b)

\* Arduino.h: #define abs(x) ((x)>0?(x):-(x)).  C leaves -LONG_MIN
\* undefined; the AVR negation yields LONG_MIN again, which NegL gives.
AbsL(x) == IF x > 0 THEN x ELSE NegL(x)

\* long -> int: the low 16 bits, read as a signed number
LongToInt(n) == ((n + INT_MAX + 1) % (2 * INT_MAX + 2)) - INT_MAX - 1

\* Mutant of DivC: the quotient rounded toward minus infinity
DivC_floor(a, b) == a \div b

\* C's / and % on long (truncation toward zero, remainder with the sign of
\* the dividend), for a positive divisor
DivC(a, b) == IF a >= 0 THEN a \div b ELSE 0 - ((0 - a) \div b)

RemC(a, b) == a - b * DivC(a, b)

---------------------------------------------------------------------------
\* Arduino String operations on a line (a sequence of one-character strings)

Digits == <<"0", "1", "2", "3", "4", "5", "6", "7", "8", "9">>

LowerCase == <<"a", "b", "c", "d", "e", "f", "g", "h", "i", "j", "k", "l", "m",
               "n", "o", "p", "q", "r", "s", "t", "u", "v", "w", "x", "y", "z">>

UpperCase == <<"A", "B", "C", "D", "E", "F", "G", "H", "I", "J", "K", "L", "M",
               "N", "O", "P", "Q", "R", "S", "T", "U", "V", "W", "X", "Y", "Z">>

IsSpace(ch) == ch \in {" ", "\t", "\r"}

IsDigit(ch) == \E k \in 1..10 : Digits[k] = ch

DigitVal(ch) == (CHOOSE k \in 1..10 : Digits[k] = ch) - 1

\* String::startsWith
StartsWith(s, prefix) ==
  /\ Len(s) >= Len(prefix)
  /\ SubSeq(s, 1, Len(prefix)) = prefix

\* String::substring(from), from counted from 0
Substring(s, from) == SubSeq(s, from + 1, Len(s))

\* String::trim: drops the white space at both ends
RECURSIVE TrimLeft(_)
TrimLeft(s) == IF s # <<>> /\ IsSpace(Head(s)) THEN TrimLeft(Tail(s)) ELSE s

RECURSIVE TrimRight(_)
TrimRight(s) ==
  IF s # <<>> /\ IsSpace(s[Len(s)]) THEN TrimRight(SubSeq(s, 1, Len(s) - 1)) ELSE s

Trim(s) == TrimRight(TrimLeft(s))

\* String::toUpperCase
ToUpperCh(ch) ==
  IF \E k \in 1..26 : LowerCase[k] = ch
  THEN UpperCase[CHOOSE k \in 1..26 : LowerCase[k] = ch]
  ELSE ch

ToUpperCase(s) == [k \in 1..Len(s) |-> ToUpperCh(s[k])]

\* String::toInt is atol: skip white space, an optional sign, then the
\* longest run of digits; 0 when there is none.  The value is accumulated
\* with the sign applied, in 32-bit arithmetic.
Mul10L(a) ==
  LET a2 == AddL(a, a)
      a4 == AddL(a2, a2)
      a8 == AddL(a4, a4)
  IN AddL(a8, a2)

RECURSIVE AccDigits(_, _, _)
AccDigits(s, acc, sign) ==
  IF s = <<>> \/ ~IsDigit(Head(s)) THEN acc
  ELSE LET d == DigitVal(Head(s))
       IN AccDigits(Tail(s), AddL(Mul10L(acc), sign * d), sign)

ToInt(s) ==
  LET t == TrimLeft(s)
  IN IF t = <<>> THEN 0
     ELSE IF Head(t) = "-" THEN AccDigits(Tail(t), 0, -1)
     ELSE IF Head(t) = "+" THEN AccDigits(Tail(t), 0, 1)
     ELSE AccDigits(t, 0, 1)

\* Serial's rendering of a long as decimal text (Print::print(long))
RECURSIVE DecDigits(_)
DecDigits(n) ==
  \* n <= 0; the digits of -n
  LET q == IF n % 10 = 0 THEN n \div 10 ELSE (n \div 10) + 1
      d == q * 10 - n
  IN (IF q = 0 THEN <<>> ELSE DecDigits(q)) \o <<Digits[d + 1]>>

LongToText(n) == IF n < 0 THEN <<"-">> \o DecDigits(n) ELSE DecDigits(0 - n)

---------------------------------------------------------------------------
\* Pin levels and Serial messages

Levels == {"LOW", "HIGH"}

MsgAlready == "Already at target."

MsgMoving == "Moving ..."

MsgDone == "Done. Position: "

MsgHoming == "Homing..."

MsgHomeError == "ERROR: Limit switch not found. Stopping."

MsgHomeFound == "Home found. Position reset to 0."

MsgSpeedSet == "Speed set: "

MsgSpeedRange == "Speed out of range"

MsgStatus == "--- Motor Status ---"

MsgUnknown == "Unknown command. Use: MOVE, GOTO, HOME, SPEED, STATUS"

MsgReady == "Stepper Motor Positioning System Ready."

NoCmd == [op |-> "NONE", arg |-> 0]

NoPrev == [valid |-> FALSE, d |-> 0, start |-> 0]

NoReport == [position |-> 0, revs |-> 0, tenths |-> 0, delay |-> 0]

---------------------------------------------------------------------------
\* The command lines the model feeds to loop()

KwMOVE == <<"M", "O", "V", "E", " ">>

KwGOTO == <<"G", "O", "T", "O", " ">>

KwHOME == <<"H", "O", "M", "E">>

KwSPEED == <<"S", "P", "E", "E", "D", " ">>

KwSTATUS == <<"S", "T", "A", "T", "U", "S">>

\* Arguments of MOVE: the short moves, the example session's move, and the
\* most negative long
MoveArgs == (-MaxPos .. MaxPos) \cup {EXAMPLE_MOVE, LONG_MIN}

GotoArgs == -MaxPos .. MaxPos

\* Arguments of SPEED: both ends of the accepted interval, their outer
\* neighbours, and a value beyond the range of int
SpeedArgs == {MIN_DELAY_US - 1, MIN_DELAY_US, MAX_DELAY_US, MAX_DELAY_US + 1,
              2 * INT_MAX + 2 + MIN_DELAY_US}

Lines ==
  {KwMOVE \o LongToText(n) : n \in MoveArgs}
    \cup {KwGOTO \o LongToText(n) : n \in GotoArgs}
    \cup {KwSPEED \o LongToText(n) : n \in SpeedArgs}
    \cup {KwHOME, KwSTATUS,
          <<"h", "o", "m", "e", "\r">>,
          <<" ", "s", "t", "a", "t", "u", "s">>,
          <<"M", "O", "V", "E", " ", "x">>,
          <<"M", "O", "V", "E">>,
          <<"F", "O", "O">>,
          <<>>}

---------------------------------------------------------------------------
\* Low-level motor control: the level each function writes

\* Mutant of enable_motor: EN driven to its inactive level
enable_motor_off == "HIGH"

\* enable_motor(): digitalWrite(EN_PIN, LOW)
enable_motor == "LOW"

\* Mutant of disable_motor: the active-low EN driven the wrong way
disable_motor_active == "LOW"

\* disable_motor(): digitalWrite(EN_PIN, HIGH)
disable_motor == "HIGH"

\* Mutant of set_direction: the two levels swapped
set_direction_swapped(forward) == IF forward THEN "LOW" ELSE "HIGH"

\* set_direction(forward): digitalWrite(DIR_PIN, forward ? HIGH : LOW)
set_direction(forward) == IF forward THEN "HIGH" ELSE "LOW"

\* step_once(): STEP goes HIGH, then LOW; the level it leaves
step_once == "LOW"

\* The physical step one pulse makes, given the level of DIR
PhysicalStep(dir) == IF dir = "HIGH" THEN 1 ELSE -1

\* Mutant of MovePosition: the position counted up whatever the direction
MovePosition_up(pos, stm) == AddL(pos, 1)

\* move_to's position update after a pulse
MovePosition(pos, stm) == IF stm > 0 THEN AddL(pos, 1) ELSE AddL(pos, -1)

\* Mutant of LimitInactive: the active-low input read as active-high
LimitInactive_high(level) == level = "LOW"

\* home_sequence's loop test: digitalRead(LIMIT_PIN) == HIGH
LimitInactive(level) == level = "HIGH"

\* Mutant of HomePosition: the search does not count its pulses
HomePosition_stuck(pos) == pos

\* home_sequence's position update after a pulse
HomePosition(pos) == AddL(pos, -1)

\* Mutant of HomeTimedOut: the search gives up at the bound itself
HomeTimedOut_le(pos) == pos <= 0 - HOME_LIMIT

\* home_sequence's safety bound
HomeTimedOut(pos) == pos < 0 - HOME_LIMIT

\* Mutant of SpeedInRange: the lower end off by one
SpeedInRange_low(spd) == spd >= MIN_DELAY_US - 1 /\ spd <= MAX_DELAY_US

\* handle_command's range check of SPEED
SpeedInRange(spd) == spd >= MIN_DELAY_US /\ spd <= MAX_DELAY_US

---------------------------------------------------------------------------
\* Initial state: the globals' initialisers, then setup()

Init ==
  /\ pc = "idle"
  /\ current_position = 0
  /\ target_position = 0
  /\ step_delay_us = INIT_DELAY_US
  /\ STEP_PIN = "LOW"
  /\ DIR_PIN = "LOW"
  /\ EN_PIN = disable_motor
  /\ LIMIT_PIN \in Levels
  /\ steps_to_move = 0
  /\ abs_steps = 0
  /\ i = 0
  /\ cmd = NoCmd
  /\ start_pos = 0
  /\ pre_delay = INIT_DELAY_US
  /\ pre_target = 0
  /\ pulses = 0
  /\ net = 0
  /\ out = MsgReady
  /\ report = NoReport
  /\ prev = NoPrev
  /\ inactive_reads = 0
  /\ scen = 0

\* History kept at the dispatch of command c
Dispatched(c) ==
  /\ cmd' = c
  /\ start_pos' = current_position
  /\ pre_delay' = step_delay_us
  /\ pre_target' = target_position
  /\ pulses' = 0
  /\ net' = 0
  /\ prev' = IF c.op = "MOVE" /\ cmd.op = "MOVE"
             THEN [valid |-> TRUE, d |-> cmd.arg, start |-> start_pos]
             ELSE NoPrev
  /\ inactive_reads' = 0
  /\ scen' = IF cmd = NoCmd /\ c.op = "HOME" THEN 1
             ELSE IF /\ scen = 1
                     /\ out = MsgHomeFound
                     /\ inactive_reads = 5
                     /\ c = [op |-> "MOVE", arg |-> EXAMPLE_MOVE]
                  THEN 2
             ELSE IF scen = 2 /\ c.op = "STATUS" THEN 3
             ELSE 0

---------------------------------------------------------------------------
\* Motion functions

\* move_to(target), up to the first test of its for loop
move_to(target) ==
  LET stm == SubL(target, current_position)
  IN /\ EN_PIN' = enable_motor
     /\ IF stm = 0
        THEN /\ out' = MsgAlready
             /\ pc' = "idle"
             /\ UNCHANGED <<DIR_PIN, steps_to_move, abs_steps, i>>
        ELSE /\ DIR_PIN' = set_direction(stm > 0)
             /\ steps_to_move' = stm
             /\ abs_steps' = AbsL(stm)
             /\ i' = 0
             /\ out' = MsgMoving
             /\ pc' = "move"
     /\ report' = NoReport
     /\ UNCHANGED <<current_position, target_position, step_delay_us,
                    STEP_PIN, LIMIT_PIN>>

\* move_relative(steps)
move_relative(steps) == move_to(AddL(current_position, steps))

\* One iteration of move_to's for loop
MoveStep ==
  /\ pc = "move"
  /\ i < abs_steps
  /\ STEP_PIN' = step_once
  /\ pulses' = pulses + 1
  /\ net' = net + PhysicalStep(DIR_PIN)
  /\ current_position' = MovePosition(current_position, steps_to_move)
  /\ i' = AddL(i, 1)
  /\ UNCHANGED <<pc, target_position, step_delay_us, DIR_PIN, EN_PIN,
                 LIMIT_PIN, steps_to_move, abs_steps, cmd, start_pos,
                 pre_delay, pre_target, out, report, prev, inactive_reads,
                 scen>>

\* The exit of move_to's for loop and the rest of move_to
MoveDone ==
  /\ pc = "move"
  /\ ~(i < abs_steps)
  /\ out' = MsgDone
  /\ EN_PIN' = disable_motor
  /\ pc' = "idle"
  /\ steps_to_move' = 0
  /\ abs_steps' = 0
  /\ i' = 0
  /\ UNCHANGED <<current_position, target_position, step_delay_us, STEP_PIN,
                 DIR_PIN, LIMIT_PIN, cmd, start_pos, pre_delay, pre_target,
                 pulses, net, report, prev, inactive_reads, scen>>

\* home_sequence(), up to the first test of its while loop.  The sketch
\* samples LIMIT only in that test, so the environment's choice of the
\* level is made where it can be seen: here and after every pulse.
home_sequence ==
  /\ out' = MsgHoming
  /\ EN_PIN' = enable_motor
  /\ DIR_PIN' = set_direction(FALSE)
  /\ pc' = "home"
  /\ LIMIT_PIN' \in Levels
  /\ report' = NoReport
  /\ UNCHANGED <<current_position, target_position, step_delay_us, STEP_PIN,
                 steps_to_move, abs_steps, i>>

\* One iteration of home_sequence's while loop: LIMIT read HIGH
HomeStep ==
  /\ pc = "home"
  /\ LimitInactive(LIMIT_PIN)
  /\ inactive_reads' = inactive_reads + (IF LIMIT_PIN = "HIGH" THEN 1 ELSE 0)
  /\ STEP_PIN' = step_once
  /\ pulses' = pulses + 1
  /\ net' = net + PhysicalStep(DIR_PIN)
  /\ current_position' = HomePosition(current_position)
  /\ LIMIT_PIN' \in Levels
  /\ IF HomeTimedOut(current_position')
     THEN /\ out' = MsgHomeError
          /\ EN_PIN' = disable_motor
          /\ pc' = "idle"
     ELSE UNCHANGED <<out, EN_PIN, pc>>
  /\ UNCHANGED <<target_position, step_delay_us, DIR_PIN, steps_to_move,
                 abs_steps, i, cmd, start_pos, pre_delay, pre_target, report,
                 prev, scen>>

\* Mutant of HomeFound: the position is not reset at the switch
HomeFound_keep ==
  /\ pc = "home"
  /\ ~LimitInactive(LIMIT_PIN)
  /\ target_position' = 0
  /\ out' = MsgHomeFound
  /\ EN_PIN' = disable_motor
  /\ pc' = "idle"
  /\ UNCHANGED <<current_position, step_delay_us, STEP_PIN, DIR_PIN,
                 LIMIT_PIN, steps_to_move, abs_steps, i, cmd, start_pos,
                 pre_delay, pre_target, pulses, net, report, prev,
                 inactive_reads, scen>>

\* The exit of home_sequence's while loop (LIMIT read LOW) and the rest of
\* home_sequence
HomeFound ==
  /\ pc = "home"
  /\ ~LimitInactive(LIMIT_PIN)
  /\ current_position' = 0
  /\ target_position' = 0
  /\ out' = MsgHomeFound
  /\ EN_PIN' = disable_motor
  /\ pc' = "idle"
  /\ UNCHANGED <<step_delay_us, STEP_PIN, DIR_PIN, LIMIT_PIN, steps_to_move,
                 abs_steps, i, cmd, start_pos, pre_delay, pre_target, pulses,
                 net, report, prev, inactive_reads, scen>>

---------------------------------------------------------------------------
\* Status

\* Mutant of print_status: the report also stores the position as target
print_status_store ==
  /\ report' = [position |-> current_position,
                revs |-> DivC(current_position, STEPS_PER_REV),
                tenths |-> RemC(current_position, STEPS_PER_REV)
                             * ((3600 \div STEPS_PER_REV)),
                delay |-> step_delay_us]
  /\ out' = MsgStatus
  /\ target_position' = current_position
  /\ UNCHANGED <<pc, current_position, step_delay_us,
                 STEP_PIN, DIR_PIN, EN_PIN, LIMIT_PIN, steps_to_move,
                 abs_steps, i>>

\* print_status(): the position, the revolutions, the angle (in tenths of a
\* degree: one step is 360.0 / STEPS_PER_REV = 1.8 degrees) and the delay
print_status ==
  /\ report' = [position |-> current_position,
                revs |-> DivC(current_position, STEPS_PER_REV),
                tenths |-> RemC(current_position, STEPS_PER_REV)
                             * ((3600 \div STEPS_PER_REV)),
                delay |-> step_delay_us]
  /\ out' = MsgStatus
  /\ UNCHANGED <<pc, current_position, target_position, step_delay_us,
                 STEP_PIN, DIR_PIN, EN_PIN, LIMIT_PIN, steps_to_move,
                 abs_steps, i>>

---------------------------------------------------------------------------
\* Command parser

\* Model bound: where a MOVE or GOTO may lead
InWindow(target) ==
  \/ target >= 0 - MaxPos /\ target <= MaxPos
  \/ target = EXAMPLE_MOVE

\* Mutant of ParseCommand: MOVE is matched without its blank
ParseCommand_loose(c) ==
  IF StartsWith(c, TrimRight(KwMOVE))
    THEN [op |-> "MOVE", arg |-> ToInt(Substring(c, 5))]
  ELSE IF StartsWith(c, KwGOTO) THEN [op |-> "GOTO", arg |-> ToInt(Substring(c, 5))]
  ELSE IF c = KwHOME THEN [op |-> "HOME", arg |-> 0]
  ELSE IF StartsWith(c, KwSPEED) THEN [op |-> "SPEED", arg |-> ToInt(Substring(c, 6))]
  ELSE IF c = KwSTATUS THEN [op |-> "STATUS", arg |-> 0]
  ELSE [op |-> "UNKNOWN", arg |-> 0]

\* handle_command(cmd), cmd the trimmed, upper-cased line: which branch of
\* its if-else chain is taken, and with which argument
ParseCommand(c) ==
  IF StartsWith(c, KwMOVE) THEN [op |-> "MOVE", arg |-> ToInt(Substring(c, 5))]
  ELSE IF StartsWith(c, KwGOTO) THEN [op |-> "GOTO", arg |-> ToInt(Substring(c, 5))]
  ELSE IF c = KwHOME THEN [op |-> "HOME", arg |-> 0]
  ELSE IF StartsWith(c, KwSPEED) THEN [op |-> "SPEED", arg |-> ToInt(Substring(c, 6))]
  ELSE IF c = KwSTATUS THEN [op |-> "STATUS", arg |-> 0]
  ELSE [op |-> "UNKNOWN", arg |-> 0]

\* loop()'s part before handle_command: read the line, trim, upper-case
ReadCommand(line) == ParseCommand(ToUpperCase(Trim(line)))

\* The commands the lines of the model are
Commands == {ReadCommand(line) : line \in Lines}

\* handle_command: the branch taken for command c
handle_command(c) ==
  /\ Dispatched(c)
  /\ CASE c.op = "MOVE" ->
            /\ c.arg = LONG_MIN \/ InWindow(AddL(current_position, c.arg))
            /\ move_relative(c.arg)
       [] c.op = "GOTO" ->
            /\ InWindow(c.arg)
            /\ move_to(c.arg)
       [] c.op = "HOME" ->
            /\ current_position >= 0 - (HOME_LIMIT + MaxRetry)
            /\ home_sequence
       [] c.op = "SPEED" ->
            LET spd == LongToInt(c.arg)
            IN /\ IF SpeedInRange(spd)
                  THEN step_delay_us' = spd /\ out' = MsgSpeedSet
                  ELSE step_delay_us' = step_delay_us /\ out' = MsgSpeedRange
               /\ report' = NoReport
               /\ UNCHANGED <<pc, current_position, target_position, STEP_PIN,
                              DIR_PIN, EN_PIN, LIMIT_PIN, steps_to_move,
                              abs_steps, i>>
       [] c.op = "STATUS" -> print_status
       [] OTHER ->
            /\ out' = MsgUnknown
            /\ report' = NoReport
            /\ UNCHANGED <<pc, current_position, target_position,
                           step_delay_us, STEP_PIN, DIR_PIN, EN_PIN, LIMIT_PIN,
                           steps_to_move, abs_steps, i>>

\* loop(): a line is available; it is read and handled
loop == \E c \in Commands : pc = "idle" /\ handle_command(c)

Next == loop \/ MoveStep \/ MoveDone \/ HomeStep \/ HomeFound

Spec == Init /\ [][Next]_vars

---------------------------------------------------------------------------
\* Properties

\* A command has run to completion and loop() waits for the next line
AtRest == pc = "idle"

MoveFinished == AtRest /\ cmd.op = "MOVE"

HomeAborted == cmd.op = "HOME" /\ out = MsgHomeError

HomeEnded == AtRest /\ cmd.op = "HOME"

\* a + b is a long
SumIsLong(a, b) ==
  /\ ~(a > 0 /\ b > 0 /\ a > LONG_MAX - b)
  /\ ~(a < 0 /\ b < 0 /\ a < LONG_MIN - b)

\* C1: whenever no motion command is in progress (at start-up and between
\* two commands), the driver is disabled: EN is at its inactive level, HIGH.
\* Fails: move_to enables the motor before it tests for "already at
\* target" and returns from there without disabling it.
C1_DisabledAtRest == AtRest => EN_PIN = "HIGH"

\* C2: MOVE d issued at current_position = p ends with current_position =
\* p + d, for every d and p.
\* Fails for d = LONG_MIN: abs(steps_to_move) is LONG_MIN again, the loop
\* body never runs and the position stays p.
C2_MoveReachesSum ==
  MoveFinished =>
    /\ SumIsLong(start_pos, cmd.arg)
    /\ current_position = start_pos + cmd.arg

\* C3: a GOTO t that directly follows a completed GOTO t reports "Already
\* at target.", leaves current_position = t and changes the level of no pin.
\* Fails: the second call drives EN LOW (enable_motor) and leaves it there.
C3_SecondGotoChangesNothing ==
  [][(AtRest /\ cmd.op = "GOTO" /\ current_position = cmd.arg /\ cmd' = cmd)
       => /\ out' = MsgAlready
          /\ current_position' = cmd.arg
          /\ UNCHANGED <<STEP_PIN, DIR_PIN, EN_PIN>>]_vars

\* C4: a homing during which the switch becomes active after at most
\* HOME_LIMIT pulses ends with current_position = 0, target_position = 0
\* and the success message, from every state it is started in.
\* Fails from a negative position: the position drops below -HOME_LIMIT
\* before the switch is read again, and the search gives up.
C4_HomeSucceedsWithinLimit ==
  (HomeEnded /\ LIMIT_PIN = "LOW" /\ pulses <= HOME_LIMIT)
    => /\ current_position = 0
       /\ target_position = 0
       /\ out = MsgHomeFound

\* C5: a homing during which the switch is never active gives up after
\* exactly HOME_LIMIT + 1 pulses, wherever it started, and does not set
\* current_position to 0.
\* Fails from any position but 0: the bound is on current_position, not on
\* the pulses of the search.
C5_TimeoutAfterLimitPlusOne ==
  (HomeAborted /\ LIMIT_PIN = "HIGH")
    => /\ pulses = HOME_LIMIT + 1
       /\ current_position # 0

\* C6: after a homing timeout the motor is disabled, current_position is
\* the starting position minus the pulses issued (not 0), step_delay_us and
\* target_position are what they were, and loop() takes the next line.
C6_TimeoutNotFatal ==
  HomeAborted
    => /\ EN_PIN = "HIGH"
       /\ current_position = start_pos - pulses
       /\ current_position # 0
       /\ step_delay_us = pre_delay
       /\ target_position = pre_target
       /\ AtRest
       /\ ENABLED loop

\* C6 witness: a search started at 0 has timed out
C6_Witness == HomeAborted /\ start_pos = 0 /\ pulses = HOME_LIMIT + 1

\* C7: SPEED n sets step_delay_us to n if and only if MIN_DELAY_US <= n <=
\* MAX_DELAY_US; otherwise it reports the range error and keeps
\* step_delay_us; nothing else changes in either case.
\* Fails for n beyond int: n is narrowed to 16 bits before the range check,
\* so SPEED 66036 is accepted and sets step_delay_us to 500.
C7_SpeedExactlyRange ==
  [][(AtRest /\ cmd'.op = "SPEED")
       => /\ IF cmd'.arg >= MIN_DELAY_US /\ cmd'.arg <= MAX_DELAY_US
             THEN step_delay_us' = cmd'.arg /\ out' = MsgSpeedSet
             ELSE step_delay_us' = step_delay_us /\ out' = MsgSpeedRange
          /\ UNCHANGED <<current_position, target_position, STEP_PIN,
                         DIR_PIN, EN_PIN>>]_vars

\* C8: in every reachable state MIN_DELAY_US <= step_delay_us <=
\* MAX_DELAY_US, and before the first command step_delay_us is 1500
C8_DelayInRange ==
  /\ step_delay_us >= MIN_DELAY_US
  /\ step_delay_us <= MAX_DELAY_US
  /\ cmd = NoCmd => step_delay_us = INIT_DELAY_US

\* C8 witness: SPEED MAX_DELAY_US + 1 was rejected with the delay at its
\* maximum
C8_Witness ==
  /\ cmd = [op |-> "SPEED", arg |-> MAX_DELAY_US + 1]
  /\ out = MsgSpeedRange
  /\ pre_delay = MAX_DELAY_US

\* C9: MOVE n directly followed by MOVE -n leaves current_position where it
\* was before the first of the two (-n in long arithmetic: the negation of
\* LONG_MIN is LONG_MIN).
C9_RoundTrip ==
  (MoveFinished /\ prev.valid /\ cmd.arg = NegL(prev.d))
    => current_position = prev.start

\* C9 witness: MOVE MaxPos then MOVE -MaxPos, both having stepped
C9_Witness ==
  /\ MoveFinished
  /\ prev.valid
  /\ prev.d = MaxPos
  /\ cmd.arg = 0 - MaxPos
  /\ pulses = MaxPos
  /\ start_pos = prev.start + MaxPos

\* C10: at every step boundary of a move or of a homing search, the
\* boundary at which a search gives up included, current_position is the
\* position at the start of the command plus the net number of physical
\* steps issued since (+1 per pulse with DIR HIGH, -1 with DIR LOW).
C10_PositionTracksSteps ==
  (\/ pc \in {"move", "home"}
   \/ AtRest /\ cmd.op \in {"MOVE", "GOTO"}
   \/ HomeAborted)
    => current_position = start_pos + net

\* C10 witness: two pulses into a backward move of more than two steps
C10_Witness ==
  /\ pc = "move"
  /\ pulses = 2
  /\ net = -2
  /\ abs_steps > 2

\* C11: target_position mirrors the last commanded absolute target: after
\* a completed GOTO t it is t, after a completed MOVE d from p it is p + d,
\* after a successful HOME it is 0.
\* Fails: move_to never writes target_position; only a successful HOME
\* does, so it is 0 in every state.
C11_TargetMirrorsCommand ==
  /\ (AtRest /\ cmd.op = "GOTO") => target_position = cmd.arg
  /\ (AtRest /\ cmd.op = "MOVE" /\ cmd.arg # LONG_MIN)
       => target_position = start_pos + cmd.arg
  /\ (HomeEnded /\ out = MsgHomeFound) => target_position = 0

\* The trimmed, upper-cased line has the form of none of the five commands
MatchesNoCommand(line) ==
  LET c == ToUpperCase(Trim(line))
  IN /\ ~StartsWith(c, KwMOVE)
     /\ ~StartsWith(c, KwGOTO)
     /\ ~StartsWith(c, KwSPEED)
     /\ c # KwHOME
     /\ c # KwSTATUS

\* Every line of that kind is read as an unknown command
UnmatchedLinesUnknown ==
  \A line \in Lines :
    MatchesNoCommand(line) => ReadCommand(line).op = "UNKNOWN"

\* Some line of that kind is not empty
SomeUnmatchedLine == \E line \in Lines : MatchesNoCommand(line) /\ Len(line) > 0

\* C12: a line that matches none of MOVE <n>, GOTO <n>, HOME, SPEED <n>,
\* STATUS is taken as an unknown command, and handling an unknown command
\* emits the unknown-command message and changes none of current_position,
\* target_position, step_delay_us and the levels of STEP, DIR and EN.
C12_UnknownChangesNothing ==
  [][/\ UnmatchedLinesUnknown
     /\ (AtRest /\ cmd'.op = "UNKNOWN")
          => /\ out' = MsgUnknown
             /\ AtRest'
             /\ UNCHANGED <<current_position, target_position,
                            step_delay_us, STEP_PIN, DIR_PIN, EN_PIN>>]_vars

\* C12 witness: an unknown command was handled away from the start-up
\* state, at a changed position and speed and with the driver left enabled
C12_Witness ==
  /\ AtRest
  /\ cmd.op = "UNKNOWN"
  /\ out = MsgUnknown
  /\ current_position = 1
  /\ step_delay_us = MIN_DELAY_US
  /\ EN_PIN = "LOW"
  /\ SomeUnmatchedLine

\* What bounds the work a running command still has to do: the iterations
\* left in move_to's loop, the pulses left before home_sequence's position
\* test gives up
Rank ==
  CASE pc = "move" -> abs_steps - i
    [] pc = "home" -> IF HomeTimedOut(current_position)
                      THEN 0
                      ELSE current_position + HOME_LIMIT + 1
    [] OTHER -> 0

\* C13: every command returns control to command reading, whatever the
\* limit switch does: a running command can always take its next step,
\* each step either ends it or leaves strictly less work to do, SPEED,
\* STATUS and unknown commands end at once, and at rest loop() can always
\* take the next line, after an error as after a success.
C13_CommandsTerminate ==
  /\ [](pc # "idle" => ENABLED (MoveStep \/ MoveDone \/ HomeStep \/ HomeFound))
  /\ [](AtRest => ENABLED loop)
  /\ [][/\ pc # "idle"
            => \/ AtRest'
               \/ pc' = pc /\ Rank' >= 0 /\ Rank' < Rank
        /\ (AtRest /\ cmd'.op \in {"SPEED", "STATUS", "UNKNOWN"}) => AtRest']_vars

\* C13 witness: a search that started above the bound and never saw the
\* switch active has run into its bound, and loop() is back at rest after
\* the error
C13_Witness ==
  /\ HomeAborted
  /\ AtRest
  /\ start_pos = 1
  /\ inactive_reads = HOME_LIMIT + 2
  /\ LIMIT_PIN = "HIGH"

\* C14: STATUS reports current_position and step_delay_us, as revolutions
\* the quotient of current_position by STEPS_PER_REV truncated toward zero
\* and as angle 1.8 degrees times the remainder, which has the sign of
\* current_position, negative positions included; position 400 at delay
\* 1500 is reported as 2 revolutions, 0.0 degrees, delay 1500.
C14_StatusReport ==
  (AtRest /\ cmd.op = "STATUS")
    => LET q == report.revs
           r == current_position - STEPS_PER_REV * q
       IN /\ report.position = current_position
          /\ report.delay = step_delay_us
          /\ r > 0 - STEPS_PER_REV /\ r < STEPS_PER_REV
          /\ current_position >= 0 => r >= 0
          /\ current_position <= 0 => r <= 0
          /\ STEPS_PER_REV * report.tenths = 3600 * r
          /\ (current_position = EXAMPLE_MOVE /\ step_delay_us = INIT_DELAY_US)
               => report = [position |-> EXAMPLE_MOVE, revs |-> 2,
                            tenths |-> 0, delay |-> INIT_DELAY_US]

\* C14 witness: STATUS after a search gave up one step below the bound:
\* 50 revolutions and 1.8 degrees, both negative
C14_Witness ==
  /\ AtRest
  /\ cmd.op = "STATUS"
  /\ current_position = 0 - (HOME_LIMIT + 1)
  /\ report.revs = 0 - 50
  /\ report.tenths = 0 - 18

\* C15: STATUS is read-only and never fails: in every state in which a
\* line can be read it can be handled, it prints the status, returns to
\* command reading, and changes none of current_position, target_position,
\* step_delay_us and the levels of STEP, DIR and EN.
C15_StatusReadOnly ==
  /\ [](AtRest => ENABLED handle_command([op |-> "STATUS", arg |-> 0]))
  /\ [][(AtRest /\ cmd'.op = "STATUS")
          => /\ out' = MsgStatus
             /\ AtRest'
             /\ UNCHANGED <<current_position, target_position,
                            step_delay_us, STEP_PIN, DIR_PIN, EN_PIN>>]_vars

\* C15 witness: STATUS was handled at a position other than the target,
\* at the slowest speed and with the driver left enabled
C15_Witness ==
  /\ AtRest
  /\ cmd.op = "STATUS"
  /\ out = MsgStatus
  /\ current_position = 0 - 1
  /\ target_position = 0
  /\ step_delay_us = MAX_DELAY_US
  /\ EN_PIN = "LOW"

\* C16: the example session from start-up.  HOME with the switch inactive
\* at 5 reads and then active issues 5 pulses and ends at position 0; the
\* MOVE 400 that follows steps forward only and ends at position 400; the
\* STATUS that follows shows position 400, 2 revolutions, 0.0 degrees and
\* delay 1500; the driver is disabled after each of the three.
C16_ExampleSession ==
  /\ (scen = 1 /\ AtRest /\ inactive_reads = 5)
       => /\ pulses = 5
          /\ out = MsgHomeFound
          /\ current_position = 0
          /\ EN_PIN = "HIGH"
  /\ (scen = 2 /\ pc = "move")
       => /\ start_pos = 0
          /\ DIR_PIN = "HIGH"
          /\ net = pulses
          /\ current_position = pulses
  /\ (scen = 2 /\ AtRest)
       => /\ pulses = EXAMPLE_MOVE
          /\ net = EXAMPLE_MOVE
          /\ current_position = EXAMPLE_MOVE
          /\ out = MsgDone
          /\ EN_PIN = "HIGH"
  /\ scen = 3
       => /\ AtRest
          /\ out = MsgStatus
          /\ report = [position |-> EXAMPLE_MOVE, revs |-> 2, tenths |-> 0,
                       delay |-> INIT_DELAY_US]
          /\ current_position = EXAMPLE_MOVE
          /\ EN_PIN = "HIGH"

\* C16 witness: the three commands of the session have been handled
C16_Witness ==
  /\ scen = 3
  /\ cmd.op = "STATUS"
  /\ report.position = EXAMPLE_MOVE
  /\ AtRest

\* The target the last MOVE or GOTO passed to move_to
MoveTarget ==
  IF cmd.op = "GOTO" THEN cmd.arg ELSE AddL(start_pos, cmd.arg)

\* C17: move_to(t) called at current_position = p with t # p issues
\* |t - p| pulses, all with DIR HIGH if t > p and all with DIR LOW
\* otherwise, moves current_position by one per pulse toward t, and ends
\* with current_position = t and the driver disabled.
\* Fails for t - p = LONG_MIN, the defect of C2: abs() leaves LONG_MIN
\* negative, no pulse is issued and current_position stays p.
C17_MoveToReachesTarget ==
  (AtRest /\ cmd.op \in {"MOVE", "GOTO"} /\ MoveTarget # start_pos)
    => /\ current_position = MoveTarget
       /\ current_position = start_pos + net
       /\ IF MoveTarget > start_pos
            THEN net = pulses /\ DIR_PIN = "HIGH"
            ELSE net = 0 - pulses /\ DIR_PIN = "LOW"
       /\ EN_PIN = "HIGH"

\* C18: every step pulse is issued inside a motion command, after the
\* command has enabled the driver and set the direction: at each pulse EN
\* is LOW and DIR is at the level the command's set_direction call wrote
\* (backward for a homing search, the sign of steps_to_move for a move),
\* and the step that starts a command issues no pulse.
C18_PulsesEnabledAndDirected ==
  [][/\ pulses' = pulses + 1
          => /\ EN_PIN = "LOW"
             /\ \/ /\ pc = "home"
                   /\ cmd.op = "HOME"
                   /\ DIR_PIN = set_direction(FALSE)
                \/ /\ pc = "move"
                   /\ cmd.op \in {"MOVE", "GOTO"}
                   /\ DIR_PIN = set_direction(steps_to_move > 0)
             /\ DIR_PIN' = DIR_PIN
     /\ AtRest => pulses' = 0]_vars

\* C18 witness: three pulses into a homing search that started at 2
C18_Witness ==
  /\ pc = "home"
  /\ start_pos = 2
  /\ pulses = 3
  /\ EN_PIN = "LOW"
  /\ DIR_PIN = "LOW"

\* C19: the homing bound is on the position, not on the pulses.  A search
\* started at current_position = p that never reads the switch active
\* issues max(1, p + HOME_LIMIT + 1) pulses before it gives up and leaves
\* current_position at p minus that number: -(HOME_LIMIT + 1) when
\* p >= -HOME_LIMIT, p - 1 when p < -HOME_LIMIT.
C19_BoundOnPosition ==
  HomeAborted
    => /\ inactive_reads = pulses
       /\ pulses = (IF start_pos + HOME_LIMIT + 1 > 1
                      THEN start_pos + HOME_LIMIT + 1
                      ELSE 1)
       /\ current_position = start_pos - pulses
       /\ start_pos >= 0 - HOME_LIMIT
            => current_position = 0 - (HOME_LIMIT + 1)
       /\ start_pos < 0 - HOME_LIMIT => current_position = start_pos - 1

\* C19 witness: a search started below the bound gave up after one pulse
C19_Witness ==
  /\ HomeAborted
  /\ start_pos < 0 - HOME_LIMIT
  /\ pulses = 1
  /\ AtRest

\* C20: home_sequence reads the limit switch before every step and never
\* steps once it has read the switch active.  The pulses of a search are as
\* many as its reads that found the switch inactive; a successful search
\* ends at the first active read; if the switch is active when HOME is
\* issued, no pulse is emitted and current_position is set to 0.
C20_ReadBeforeEveryStep ==
  /\ [](cmd.op = "HOME" => pulses = inactive_reads)
  /\ []((HomeEnded /\ out = MsgHomeFound)
          => /\ LIMIT_PIN = "LOW"
             /\ current_position = 0
             /\ inactive_reads = 0 => (pulses = 0 /\ net = 0))
  /\ [][(pc = "home" /\ LIMIT_PIN = "LOW")
          => /\ pulses' = pulses
             /\ STEP_PIN' = STEP_PIN
             /\ AtRest'
             /\ out' = MsgHomeFound]_vars

\* C20 witness: HOME at position 2 with the switch already active ended
\* at 0 without a pulse
C20_Witness ==
  /\ HomeEnded
  /\ out = MsgHomeFound
  /\ start_pos = 2
  /\ pulses = 0
  /\ current_position = 0

=============================================================================
